---- MODULE Spec2Model ----
(***************************************************************************)
(* Model of src/app.py: the sheet classifier, the balance aggregator       *)
(* run_code_1, the contract aggregator run_code_2 and the processing       *)
(* pipeline that chains them.                                              *)
(*                                                                         *)
(* Text is a sequence of one-character strings.  The module is ASCII, so   *)
(* a Cyrillic letter is written as a token: "cyS" is the small letter es,  *)
(* "CYI" the capital letter i, and so on.  Ord gives every character its   *)
(* code point, Lower what str.lower() maps it to.                          *)
(*                                                                         *)
(* Numbers are exact rationals <<numerator, denominator>> in lowest terms, *)
(* so x / 1000 and x * 1.12 are modelled as what they compute; the         *)
(* rounding of binary floating point is not modelled.                      *)
(***************************************************************************)
EXTENDS Integers, Sequences, FiniteSets, TLC

VARIABLES
    pandasNanText,  \* the build: TRUE when astype(str) turns a missing name into "nan"
    mode,           \* the scenario selected in the form
    file_bytes,     \* the uploaded workbook
    out_bytes,      \* the workbook bytes the pipeline holds
    wb,             \* the workbook the running aggregator has loaded
    groups,         \* prefix_to_sheets / prefix_to_pair, in insertion order
    todo,           \* position in the loop over the prefixes
    pc,             \* position in the pipeline
    err,            \* the condition raised, "" when none
    offered,        \* whether the download button is shown
    acc,            \* the accumulators of the prefix the running call processed last
    upload,         \* 1 for the user's file, 2 for the offered result uploaded again
    sortOrder       \* the build: the order sort_values has given each frame it sorted

vars == <<pandasNanText, mode, file_bytes, out_bytes, wb, groups, todo, pc, err, offered, acc,
          upload, sortOrder>>

(***************************************************************************)
(* Characters and text                                                     *)
(***************************************************************************)
Ord(c) ==
    CASE c = " " -> 32
      [] c = "0" -> 48 [] c = "1" -> 49 [] c = "2" -> 50 [] c = "3" -> 51
      [] c = "4" -> 52 [] c = "5" -> 53 [] c = "6" -> 54 [] c = "7" -> 55
      [] c = "8" -> 56 [] c = "9" -> 57
      [] c = ":" -> 58
      [] c = "A" -> 65 [] c = "B" -> 66 [] c = "D" -> 68 [] c = "J" -> 74
      [] c = "K" -> 75 [] c = "M" -> 77 [] c = "W" -> 87
      [] c = "a" -> 97 [] c = "b" -> 98 [] c = "d" -> 100 [] c = "j" -> 106
      [] c = "k" -> 107 [] c = "m" -> 109 [] c = "n" -> 110 [] c = "w" -> 119
      [] c = "x" -> 120
      [] c = "CYG" -> 1043 [] c = "CYI" -> 1048 [] c = "CYO" -> 1054
      [] c = "CYT" -> 1058
      [] c = "cyA" -> 1072 [] c = "cyG" -> 1075 [] c = "cyD" -> 1076
      [] c = "cyI" -> 1080 [] c = "cyK" -> 1082 [] c = "cyL" -> 1083
      [] c = "cyN" -> 1085 [] c = "cyO" -> 1086 [] c = "cyR" -> 1088
      [] c = "cyS" -> 1089 [] c = "cyT" -> 1090 [] c = "cySoft" -> 1100

Lower(c) ==
    CASE c = "A" -> "a" [] c = "B" -> "b" [] c = "D" -> "d" [] c = "J" -> "j"
      [] c = "K" -> "k" [] c = "M" -> "m" [] c = "W" -> "w"
      [] c = "CYG" -> "cyG" [] c = "CYI" -> "cyI" [] c = "CYO" -> "cyO"
      [] c = "CYT" -> "cyT"
      [] OTHER -> c

StrLower(s) == [i \in 1..Len(s) |-> Lower(s[i])]

RECURSIVE LStrip(_)
LStrip(s) == IF s # <<>> /\ Head(s) = " " THEN LStrip(Tail(s)) ELSE s

RECURSIVE RStrip(_)
RStrip(s) ==
    IF s # <<>> /\ s[Len(s)] = " " THEN RStrip(SubSeq(s, 1, Len(s) - 1)) ELSE s

\* str.strip()
Strip(s) == RStrip(LStrip(s))

\* str.startswith
StartsWith(s, p) == Len(s) >= Len(p) /\ SubSeq(s, 1, Len(p)) = p

\* name[:n]
Take(s, n) == SubSeq(s, 1, IF Len(s) < n THEN Len(s) ELSE n)

\* s < t for Python strings: by code point, a proper prefix first
RECURSIVE StrLess(_, _)
StrLess(s, t) ==
    IF t = <<>> THEN FALSE
    ELSE IF s = <<>> THEN TRUE
    ELSE IF Ord(Head(s)) # Ord(Head(t)) THEN Ord(Head(s)) < Ord(Head(t))
    ELSE StrLess(Tail(s), Tail(t))

Digit(n) == <<"0", "1", "2", "3", "4", "5", "6", "7", "8", "9">>[n + 1]

\* str(n) of a non-negative int
RECURSIVE StrOfNat(_)
StrOfNat(n) == IF n < 10 THEN <<Digit(n)>> ELSE StrOfNat(n \div 10) \o <<Digit(n % 10)>>

IsDigit(c) == Ord(c) >= 48 /\ Ord(c) <= 57

RECURSIVE NatOfStr(_)
NatOfStr(s) ==
    IF s = <<>> THEN 0 ELSE 10 * NatOfStr(SubSeq(s, 1, Len(s) - 1)) + (Ord(s[Len(s)]) - 48)

\* whether float(s) / to_numeric accept the text: digits, blanks around them allowed
IsNumericText(s) == Strip(s) # <<>> /\ \A i \in 1..Len(Strip(s)) : IsDigit(Strip(s)[i])

(***************************************************************************)
(* Exact rationals                                                         *)
(***************************************************************************)
Abs(n) == IF n < 0 THEN -n ELSE n

RECURSIVE GCD(_, _)
GCD(a, b) == IF b = 0 THEN a ELSE GCD(b, a % b)

Rat(n, d) == LET g == GCD(Abs(n), d) IN IF n = 0 THEN <<0, 1>> ELSE <<n \div g, d \div g>>
RAdd(x, y) == Rat(x[1] * y[2] + y[1] * x[2], x[2] * y[2])
RSub(x, y) == Rat(x[1] * y[2] - y[1] * x[2], x[2] * y[2])
RLeq(x, y) == x[1] * y[2] <= y[1] * x[2]
Zero == <<0, 1>>

(***************************************************************************)
(* Helpers, src/app.py 17..41                                              *)
(***************************************************************************)
SheetNameMax == 31

Banned == {":", "\\", "/", "?", "*", "[", "]"}

RECURSIVE RemoveBanned(_)
RemoveBanned(s) ==
    IF s = <<>> THEN <<>>
    ELSE IF Head(s) \in Banned THEN RemoveBanned(Tail(s))
    ELSE <<Head(s)>> \o RemoveBanned(Tail(s))

DefaultSheetName == <<"cyL", "cyI", "cyS", "cyT">>

safe_sheet_name(name) ==
    LET stripped == Strip(RemoveBanned(name))
    IN  Take(IF stripped = <<>> THEN DefaultSheetName ELSE stripped, SheetNameMax)

\* split_prefix_suffix4 and split_prefix_suffix2: L is 4 or 2
split_prefix_suffix(sheet_name, L) ==
    IF Len(sheet_name) < L THEN <<sheet_name, <<>> >>
    ELSE <<SubSeq(sheet_name, 1, Len(sheet_name) - L),
           StrLower(SubSeq(sheet_name, Len(sheet_name) - L + 1, Len(sheet_name)))>>

normalize_prefix(prefix) == Strip(prefix)

c1210 == <<"1", "2", "1", "0">>
c1710 == <<"1", "7", "1", "0">>
c3310 == <<"3", "3", "1", "0">>
c3510 == <<"3", "5", "1", "0">>
cwd == <<"w", "d">>
cmd == <<"m", "d">>

\* target_suffixes of run_code_1, in dict order: the code and the value column
target_suffixes ==
    << [suf |-> c1210, col |-> 6], [suf |-> c1710, col |-> 6],
       [suf |-> c3310, col |-> 7], [suf |-> c3510, col |-> 7] >>

Codes1 == {target_suffixes[i].suf : i \in 1..Len(target_suffixes)}
Codes2 == {cwd, cmd}

(***************************************************************************)
(* The sheet classifier: the loops of run_code_1 (55..61) and run_code_2   *)
(* (273..279).  The dict of dicts is a sequence of [prefix, m] in          *)
(* insertion order, m a function from the codes seen to the sheet name.    *)
(***************************************************************************)
GroupIndex(gs, prefix) ==
    IF \E i \in 1..Len(gs) : gs[i].prefix = prefix
    THEN CHOOSE i \in 1..Len(gs) : gs[i].prefix = prefix
    ELSE 0

\* a classifier that lets a later sheet replace the one registered
RegisterLast(gs, prefix, suf, sh) ==
    LET i == GroupIndex(gs, prefix)
    IN  IF i = 0 THEN Append(gs, [prefix |-> prefix, m |-> (suf :> sh)])
        ELSE [gs EXCEPT ![i].m = (suf :> sh) @@ @]

\* prefix_to_sheets[prefix][suf] = sh unless the code is already there
RegisterFirst(gs, prefix, suf, sh) ==
    LET i == GroupIndex(gs, prefix)
    IN  IF i = 0 THEN Append(gs, [prefix |-> prefix, m |-> (suf :> sh)])
        ELSE IF suf \in DOMAIN gs[i].m THEN gs
        ELSE [gs EXCEPT ![i].m = (suf :> sh) @@ @]

ClassifyStep(gs, sh, L, codes) ==
    LET ps == split_prefix_suffix(sh, L)
    IN  IF ps[2] \in codes THEN RegisterFirst(gs, normalize_prefix(ps[1]), ps[2], sh) ELSE gs

RECURSIVE ClassifyFrom(_, _, _, _)
ClassifyFrom(gs, names, L, codes) ==
    IF names = <<>> THEN gs
    ELSE ClassifyFrom(ClassifyStep(gs, Head(names), L, codes), Tail(names), L, codes)

Classify(names, L, codes) == ClassifyFrom(<<>>, names, L, codes)

SheetNames(book) == [i \in 1..Len(book) |-> book[i].name]

(***************************************************************************)
(* Cells, rows, sheets.  A cell is empty, an int or a text.  A row holds   *)
(* the columns the two aggregators read: A and B, the yearly columns C, D, *)
(* E, the value columns G and H (pandas column 6 and 7), and one cell of   *)
(* the monthly block AE..AP, at offset mon, with value mv (the other       *)
(* eleven cells of the block are empty).  rows[1] is worksheet row 2, the  *)
(* first row below the header.                                             *)
(***************************************************************************)
None == [t |-> "none", v |-> 0, s |-> <<>>]
Num(n) == [t |-> "num", v |-> n, s |-> <<>>]
Text(x) == [t |-> "text", v |-> 0, s |-> x]

NMonths == 12

Row(a, b, c, d, e, g, h, mon, mv) ==
    [A |-> a, B |-> b, C |-> c, D |-> d, E |-> e, G |-> g, H |-> h, mon |-> mon, mv |-> mv]

\* a sheet of the uploaded file
SrcSheet(name, ncols, rows) ==
    [name |-> name, kind |-> "src", ncols |-> ncols, rows |-> rows,
     cust |-> <<>>, supp |-> <<>>, total |-> <<>>, crows |-> <<>>]

\* Python truth value of a cell value: None, 0 and "" are false
Truthy(cell) ==
    CASE cell.t = "none" -> FALSE
      [] cell.t = "num" -> cell.v # 0
      [] cell.t = "text" -> cell.s # <<>>

\* str(x) of a cell value that is not None
StrOf(cell) == IF cell.t = "num" THEN StrOfNat(cell.v) ELSE cell.s

\* whether the cell converts to a number (float(v), pd.to_numeric)
IsNumeric(cell) == cell.t = "num" \/ (cell.t = "text" /\ IsNumericText(cell.s))
NumericValue(cell) == IF cell.t = "num" THEN cell.v ELSE NatOfStr(Strip(cell.s))

SheetByName(book, name) == book[CHOOSE i \in 1..Len(book) : book[i].name = name]

(***************************************************************************)
(* run_code_1, 70..90: the Counterparty Total of one source sheet          *)
(***************************************************************************)
NanText == <<"n", "a", "n">>
Missing == <<"<NA>">>   \* a name pandas keeps as a missing value, not a text
Itogo == <<"cyI", "cyT", "cyO", "cyG", "cyO">>

\* pd.to_numeric(errors="coerce").fillna(0), line 80
ToNumericFill0(cell) == IF IsNumeric(cell) THEN NumericValue(cell) ELSE 0

\* astype(str).str.strip(), line 82; a missing name is "nan" or stays missing
NameAsStr(cell, nanText) ==
    IF cell.t = "none" THEN (IF nanText THEN NanText ELSE Missing)
    ELSE Strip(StrOf(cell))

ValueAt(row, col) == IF col = 6 THEN row.G ELSE row.H

\* a filter that forgets to drop the blank names
KeepRowBlankName(row, col, nanText) ==
    LET name == NameAsStr(row.A, nanText)
    IN  /\ ToNumericFill0(ValueAt(row, col)) # 0
        /\ name \notin {c1210, c1710, c3310, c3510}
        /\ ~StartsWith(StrLower(name), Itogo)

\* a filter that compares with the total marker without lowering the name
KeepRowCaseSensitive(row, col, nanText) ==
    LET name == NameAsStr(row.A, nanText)
    IN  /\ ToNumericFill0(ValueAt(row, col)) # 0
        /\ name # <<>>
        /\ name \notin {c1210, c1710, c3310, c3510}
        /\ ~StartsWith(name, Itogo)

\* lines 81..85: the row survives the four filters
KeepRow(row, col, nanText) ==
    LET name == NameAsStr(row.A, nanText)
    IN  /\ ToNumericFill0(ValueAt(row, col)) # 0
        /\ name # <<>>
        /\ name \notin {c1210, c1710, c3310, c3510}
        /\ ~StartsWith(StrLower(name), Itogo)

\* groupby("Контрагент")["value"].sum(), line 90: missing names are dropped
RECURSIVE GroupSum(_, _, _, _)
GroupSum(totals, rows, col, nanText) ==
    IF rows = <<>> THEN totals
    ELSE LET r == Head(rows)
             name == NameAsStr(r.A, nanText)
             v == ToNumericFill0(ValueAt(r, col))
             next == IF ~KeepRow(r, col, nanText) \/ name = Missing THEN totals
                     ELSE IF name \in DOMAIN totals
                          THEN [totals EXCEPT ![name] = @ + v]
                          ELSE (name :> v) @@ totals
         IN  GroupSum(next, Tail(rows), col, nanText)

EmptySeries == [x \in {} |-> 0]

\* one pass of the loop 70..90 for code target_suffixes[i]
CodeTotals(book, suf_map, i, nanText) ==
    LET suf == target_suffixes[i].suf
        col == target_suffixes[i].col
    IN  IF suf \notin DOMAIN suf_map THEN EmptySeries
        ELSE LET sheet == SheetByName(book, suf_map[suf])
             IN  IF sheet.ncols <= col THEN EmptySeries
                 ELSE GroupSum(EmptySeries, sheet.rows, col, nanText)

\* sheet_data.get(code, empty Series), 92..95
sheet_data(book, suf_map, nanText) ==
    [code \in Codes1 |->
        CodeTotals(book, suf_map,
                   CHOOSE i \in 1..Len(target_suffixes) : target_suffixes[i].suf = code,
                   nanText)]

\* Series.map(...).fillna(0) / 1000
Thousands(series, name) == Rat(IF name \in DOMAIN series THEN series[name] ELSE 0, 1000)

\* sorted(set of str)
RECURSIVE SortedStrs(_)
SortedStrs(S) ==
    IF S = {} THEN <<>>
    ELSE LET least == CHOOSE x \in S : \A y \in S \ {x} : StrLess(x, y)
         IN  <<least>> \o SortedStrs(S \ {least})

Injections(n) == {f \in [1..n -> 1..n] : \A i, j \in 1..n : i # j => f[i] # f[j]}

\* a sort that leaves ascending=False out
SortValuesAsc(rows) ==
    {p \in {[i \in 1..Len(rows) |-> rows[f[i]]] : f \in Injections(Len(rows))} :
        \A i \in 1..(Len(p) - 1) : RLeq(p[i].net, p[i + 1].net)}

\* sort_values(by=net, ascending=False): the order among equal nets is not fixed
SortValuesDesc(rows) ==
    {p \in {[i \in 1..Len(rows) |-> rows[f[i]]] : f \in Injections(Len(rows))} :
        \A i \in 1..(Len(p) - 1) : RLeq(p[i + 1].net, p[i].net)}

\* a customer row whose net leaves the 3510 total out
CustRowFirstOnly(sd, name) ==
    LET a == Thousands(sd[c1210], name)
        b == Thousands(sd[c3510], name)
    IN  [name |-> name, first |-> a, second |-> b, net |-> a]

\* sort_values is a function of the frame: a frame the build has sorted before
\* comes out in the order it came out then
sort_values(rows, known) ==
    IF \E p \in known : p[1] = rows
    THEN {p[2] : p \in {q \in known : q[1] = rows}}
    ELSE SortValuesDesc(rows)

Sorted(known, rows, result) == known \cup {<<rows, result>>}

\* 105..113
CustRow(sd, name) ==
    LET a == Thousands(sd[c1210], name)
        b == Thousands(sd[c3510], name)
    IN  [name |-> name, first |-> a, second |-> b, net |-> RSub(a, b)]

\* 115..123
SuppRow(sd, name) ==
    LET a == Thousands(sd[c1710], name)
        b == Thousands(sd[c3310], name)
    IN  [name |-> name, first |-> a, second |-> b, net |-> RSub(a, b)]

\* a combined net that adds the customer codes and subtracts the supplier codes
TotalNetBySide(sd, name) ==
    RSub(RSub(RAdd(Thousands(sd[c1210], name), Thousands(sd[c3510], name)),
              Thousands(sd[c1710], name)),
         Thousands(sd[c3310], name))

\* 125..135
TotalNet(sd, name) ==
    RSub(RSub(RAdd(Thousands(sd[c1210], name), Thousands(sd[c1710], name)),
              Thousands(sd[c3310], name)),
         Thousands(sd[c3510], name))

TotalRow(sd, name) == [name |-> name, net |-> TotalNet(sd, name)]

cust_set(sd) == DOMAIN sd[c1210] \cup DOMAIN sd[c3510]
supp_set(sd) == DOMAIN sd[c1710] \cup DOMAIN sd[c3310]

BlockRows(S, mk(_)) == LET names == SortedStrs(S) IN [i \in 1..Len(names) |-> mk(names[i])]

(***************************************************************************)
(* Writing an output sheet, 137..140 and 340..343                          *)
(***************************************************************************)
Saldo == <<"cyS", "cyA", "cyL", "cySoft", "cyD">>
Kontr == <<"cyK", "cyO", "cyN", "cyT", "cyR">>

\* wb.remove(wb[name]) / del wb[name]
RemoveSheet(book, name) == SelectSeq(book, LAMBDA sh : sh.name # name)

\* openpyxl gives a new sheet whose title is taken, letter case aside, a number
TitleTaken(book, title) == \E i \in 1..Len(book) : StrLower(book[i].name) = StrLower(title)

FreeTitle(book, title) ==
    IF ~TitleTaken(book, title) THEN title
    ELSE title \o StrOfNat(CHOOSE k \in 1..(Len(book) + 1) :
                              /\ ~TitleTaken(book, title \o StrOfNat(k))
                              /\ \A j \in 1..(k - 1) : TitleTaken(book, title \o StrOfNat(j)))

\* out_sheet_name in wb.sheetnames => remove; then wb.create_sheet(out_sheet_name)
ReplaceSheet(book, sheet) ==
    LET kept == IF \E i \in 1..Len(book) : book[i].name = sheet.name
                THEN RemoveSheet(book, sheet.name) ELSE book
    IN  Append(kept, [sheet EXCEPT !.name = FreeTitle(kept, sheet.name)])

OutName(prefix, suffix) == safe_sheet_name(IF prefix # <<>> THEN prefix \o suffix ELSE suffix)

SaldoSheet(prefix, cust, supp, total) ==
    [name |-> OutName(prefix, Saldo), kind |-> "saldo", ncols |-> 13, rows |-> <<>>,
     cust |-> cust, supp |-> supp, total |-> total, crows |-> <<>>]

(***************************************************************************)
(* run_code_2, 289..338: the four accumulators of one prefix               *)
(***************************************************************************)
\* str(n).strip() if n else ""
KeyPart(cell) == IF Truthy(cell) THEN Strip(StrOf(cell)) ELSE <<>>

\* lines 298..300 and 315..317: the row is skipped when both cells are false
Admitted(row) == ~(~Truthy(row.A) /\ ~Truthy(row.B))

KeyOf(row) == <<KeyPart(row.A), KeyPart(row.B)>>

NYears == 3
ZeroYears == [i \in 1..NYears |-> 0]
ZeroMonths == [i \in 1..NMonths |-> 0]

\* target_dict[key][idx] += float(v): the entry is created before float(v) is
\* tried, and a failing float(v) is swallowed by the bare except
AddCell(d, key, zero, idx, cell) ==
    IF cell.t = "none" THEN d
    ELSE LET e == IF key \in DOMAIN d THEN d ELSE (key :> zero) @@ d
         IN  IF IsNumeric(cell) THEN [e EXCEPT ![key][idx] = @ + NumericValue(cell)] ELSE e

YearlyRow(d, row) ==
    IF ~Admitted(row) THEN d
    ELSE LET k == KeyOf(row)
         IN  AddCell(AddCell(AddCell(d, k, ZeroYears, 1, row.C), k, ZeroYears, 2, row.D),
                     k, ZeroYears, 3, row.E)

\* the monthly block starts at column AE; the row has one cell of it, at offset mon
MonthlyRow(d, row) ==
    IF ~Admitted(row) THEN d ELSE AddCell(d, KeyOf(row), ZeroMonths, row.mon + 1, row.mv)

RECURSIVE collect_yearly(_, _)
collect_yearly(rows, d) ==
    IF rows = <<>> THEN d ELSE collect_yearly(Tail(rows), YearlyRow(d, Head(rows)))

RECURSIVE collect_monthly_2025(_, _)
collect_monthly_2025(rows, d) ==
    IF rows = <<>> THEN d ELSE collect_monthly_2025(Tail(rows), MonthlyRow(d, Head(rows)))

EmptyDict == [x \in {} |-> <<>>]

\* 327..330
Accumulate(wd_ws, md_ws) ==
    [payments_year |-> collect_yearly(wd_ws.rows, EmptyDict),
     performance_year |-> collect_yearly(md_ws.rows, EmptyDict),
     payments_2025_monthly |-> collect_monthly_2025(wd_ws.rows, EmptyDict),
     performance_2025_monthly |-> collect_monthly_2025(md_ws.rows, EmptyDict)]

KeyLess(x, y) == StrLess(x[1], y[1]) \/ (x[1] = y[1] /\ StrLess(x[2], y[2]))

RECURSIVE SortedKeys(_)
SortedKeys(S) ==
    IF S = {} THEN <<>>
    ELSE LET least == CHOOSE x \in S : \A y \in S \ {x} : KeyLess(x, y)
         IN  <<least>> \o SortedKeys(S \ {least})

\* 332..338
all_keys(a) ==
    SortedKeys(DOMAIN a.payments_year \cup DOMAIN a.performance_year
               \cup DOMAIN a.payments_2025_monthly \cup DOMAIN a.performance_2025_monthly)

(***************************************************************************)
(* run_code_2, 374..402: one output row per key                            *)
(***************************************************************************)
start_row == 3

\* dict.get(key, zeros)
GetOr(d, key, zero) == IF key \in DOMAIN d THEN d[key] ELSE zero

\* a payments cell: the float as accumulated, 383..385 and 398
PaymentCell(x) == Rat(x, 1)

\* a performance cell written without the gross-up
PerformanceUnscaled(x) == Rat(x, 1)

\* a performance cell: x * 1.12, 388..390 and 402
PerformanceCell(x) == Rat(x * 112, 100)

Formula(op, a, b, row) == [op |-> op, a |-> a, b |-> b, row |-> row]

ContractRow(a, key, row) ==
    LET py == GetOr(a.payments_year, key, ZeroYears)
        pf == GetOr(a.performance_year, key, ZeroYears)
        mp == GetOr(a.payments_2025_monthly, key, ZeroMonths)
        mf == GetOr(a.performance_2025_monthly, key, ZeroMonths)
    IN  [row |-> row, A |-> key[1], B |-> key[2],
         C |-> PaymentCell(py[1]), D |-> PaymentCell(py[2]), E |-> PaymentCell(py[3]),
         F |-> Formula("SUM", "C", "E", row),
         G |-> PerformanceCell(pf[1]), H |-> PerformanceCell(pf[2]),
         I |-> PerformanceCell(pf[3]),
         J |-> Formula("SUM", "G", "I", row),
         K |-> Formula("SUB", "J", "F", row),
         M |-> [i \in 1..NMonths |-> PaymentCell(mp[i])],
         Y |-> [i \in 1..NMonths |-> PerformanceCell(mf[i])]]

ContractRows(a) ==
    LET keys == all_keys(a)
    IN  [i \in 1..Len(keys) |-> ContractRow(a, keys[i], start_row + (i - 1))]

KontrSheet(prefix, crows) ==
    [name |-> OutName(prefix, Kontr), kind |-> "contr", ncols |-> 36, rows |-> <<>>,
     cust |-> <<>>, supp |-> <<>>, total |-> <<>>, crows |-> crows]

\* a check that accepts a prefix with either sheet
valid_prefixes_either(gs) == SelectSeq(gs, LAMBDA g : cwd \in DOMAIN g.m \/ cmd \in DOMAIN g.m)

\* valid_prefixes, line 281
valid_prefixes(gs) == SelectSeq(gs, LAMBDA g : cwd \in DOMAIN g.m /\ cmd \in DOMAIN g.m)

(***************************************************************************)
(* The uploaded workbooks                                                  *)
(***************************************************************************)
MaxSheets == 3     \* sheets of a workbook drawn from NameCatalog
MaxRows == 3       \* data rows of a workbook drawn from the row catalogs

tA == <<"A">>
tB == <<"B">>

NameCatalog ==
    { c1210, tA \o c1210, <<"a">> \o c3510, <<"A", " ">> \o c1210, <<"2", "1", "0">>,
      tA \o cwd, <<"A", " ", "W", "D">>, <<"A", "M", "d">>, <<"a", "m", "d">>, <<"d">> }

StdRow ==
    Row(Text(<<"K">>), Text(<<"J">>), Num(100), None, Num(1000), Num(2000), Num(3000),
        0, Num(5))

\* sheet titles of one workbook differ, letter case aside
DistinctTitles(names) ==
    \A i, j \in 1..Len(names) : i # j => StrLower(names[i]) # StrLower(names[j])

NameBooks ==
    { [i \in 1..Len(names) |-> SrcSheet(names[i], 8, <<StdRow>>)] :
        names \in { ns \in UNION {[1..n -> NameCatalog] : n \in 1..MaxSheets} :
                      DistinctTitles(ns) } }

RECURSIVE SubsetsUpTo(_, _)
SubsetsUpTo(S, k) ==
    IF k = 0 THEN {{}}
    ELSE LET P == SubsetsUpTo(S, k - 1) IN P \cup {p \cup {x} : p \in P, x \in S}

\* a balance row: the name, column G (index 6) and column H (index 7)
BRow(a, g, h) == Row(a, None, None, None, None, g, h, 0, None)

ItogoCell == Text(<<"CYI", "cyT", "cyO", "cyG", "cyO">>)
ItogoUpperCell == Text(<<" ", "CYI", "CYT", "CYO", "CYG", "CYO", ":">>)

BalCatalog ==
    << \* A1210
       << BRow(Text(<<"K">>), Num(3000), Num(1000)),
          BRow(Text(<<" ", "K", " ">>), Num(2500), Num(500)),
          BRow(Text(<<"J">>), Num(1000), Num(3000)),
          BRow(Text(<<"M">>), Num(3000), Num(1000)),
          BRow(None, Num(7000), Num(7000)),
          BRow(Text(<<" ", " ">>), Num(7000), Num(7000)),
          BRow(ItogoCell, Num(9000), Num(9000)),
          BRow(ItogoUpperCell, Num(9000), Num(9000)),
          BRow(Text(<<"K">>), Num(0), Num(0)),
          BRow(Text(<<"K">>), Text(<<"x">>), Text(<<"x">>)),
          BRow(Text(<<"K">>), None, None),
          BRow(Text(<<"K">>), Text(<<"7">>), Text(<<"7">>)),
          BRow(Num(1210), Num(5000), Num(5000)) >>,
       \* A3510
       << BRow(Text(<<"K">>), Num(3000), Num(1000)),
          BRow(Text(<<"J">>), Num(1000), Num(3000)) >>,
       \* A1710
       << BRow(Text(<<"K">>), Num(3000), Num(1000)),
          BRow(Text(<<"J">>), Num(1000), Num(3000)) >>,
       \* A3310
       << BRow(Text(<<"K">>), Num(3000), Num(1000)),
          BRow(Text(<<"J">>), Num(1000), Num(3000)) >>,
       \* B1210
       << BRow(Text(<<"K">>), Num(3000), Num(1000)) >> >>

BalNames == << tA \o c1210, tA \o c3510, tA \o c1710, tA \o c3310, tB \o c1210 >>

\* a contract row: name, contract, the yearly cells, one monthly cell
CRow(a, b, c, d, e, mon, mv) == Row(a, b, c, d, e, None, None, mon, mv)

ConCatalog ==
    << \* Awd
       << CRow(Text(<<"K">>), Text(<<"J">>), Num(100), None, None, 0, None),
          CRow(Text(<<" ", "K", " ">>), Text(<<"J", " ">>), None, Num(50), None, 2, Num(7)),
          CRow(Text(<<"K">>), Text(<<"D">>), None, None, Num(1000), 11, Num(3)),
          CRow(Text(<<"B">>), None, Num(1000), None, None, 0, None),
          CRow(None, Text(<<"J">>), Num(100), None, None, 0, None),
          CRow(None, None, Num(100), None, None, 0, Num(4)),
          CRow(Text(<<" ", " ">>), None, Num(100), None, None, 0, None),
          CRow(Num(0), None, Num(100), None, None, 0, Num(4)),
          CRow(Num(5), Num(0), None, None, None, 5, Num(100)),
          CRow(Text(<<"K">>), Text(<<"J">>), Text(<<"x">>), None, None, 0, None),
          CRow(Text(<<"M">>), Text(<<"J">>), None, None, None, 0, None),
          CRow(ItogoCell, None, Num(900), None, None, 0, Num(900)),
          CRow(Text(<<"M">>), Text(<<"J">>), Text(<<"7">>), None, None, 0, None) >>,
       \* Amd
       << CRow(Text(<<"K">>), Text(<<"J">>), Num(1000), None, None, 0, None),
          CRow(Text(<<"K">>), Text(<<"D">>), None, Num(50), None, 2, Num(100)),
          CRow(Text(<<"B">>), None, Num(100), Num(100), Num(100), 0, None),
          CRow(Text(<<" ">>), None, None, None, None, 3, Num(5)),
          CRow(ItogoUpperCell, None, Num(900), None, None, 0, None) >>,
       \* Bwd
       << CRow(Text(<<"K">>), Text(<<"J">>), Num(100), None, None, 0, None) >>,
       \* Bmd
       << CRow(Text(<<"B">>), None, Num(1000), None, None, 0, None) >> >>

ConNames == << tA \o cwd, tA \o cmd, tB \o cwd, tB \o cmd >>

Placements(cat) == UNION {{<<i, j>> : j \in 1..Len(cat[i])} : i \in 1..Len(cat)}

\* the rows of sheet i: the chosen rows of its catalog, in catalog order
PlacedRows(cat, P, i) ==
    LET idx == SelectSeq([j \in 1..Len(cat[i]) |-> j], LAMBDA j : <<i, j>> \in P)
    IN  [n \in 1..Len(idx) |-> cat[i][idx[n]]]

Book(names, cat, P, ncols) ==
    [i \in 1..Len(names) |-> SrcSheet(names[i], ncols, PlacedRows(cat, P, i))]

\* the width of the sheets (df.shape[1]) and the build; the two builds differ
\* only on a sheet that has an empty name cell, row 5 of the first catalog
BalOptions(P) ==
    {<<8, TRUE>>, <<7, TRUE>>} \cup (IF <<1, 5>> \in P THEN {<<8, FALSE>>} ELSE {})

Modes == {"Saldo", "Contracts", "Both"}

Start(book, m, nanText) ==
    /\ file_bytes = book
    /\ mode = m
    /\ pandasNanText = nanText
    /\ out_bytes = <<>>
    /\ wb = <<>>
    /\ groups = <<>>
    /\ todo = 0
    /\ pc = "idle"
    /\ err = ""
    /\ offered = FALSE
    /\ acc = [kind |-> "none"]
    /\ upload = 1
    /\ sortOrder = {}

InitNames == \E book \in NameBooks, m \in Modes : Start(book, m, TRUE)

InitBalance ==
    \E P \in SubsetsUpTo(Placements(BalCatalog), MaxRows) : \E o \in BalOptions(P) :
        Start(Book(BalNames, BalCatalog, P, o[1]), "Saldo", o[2])

InitContract ==
    \E P \in SubsetsUpTo(Placements(ConCatalog), MaxRows) :
        Start(Book(ConNames, ConCatalog, P, 36), "Contracts", TRUE)

\* a workbook with sheets for both aggregators
MixCatalog ==
    << \* A1210
       << BRow(Text(<<"J">>), Num(1000), Num(3000)),
          BRow(Text(<<"K">>), Num(3000), Num(1000)) >>,
       \* A3310
       << BRow(Text(<<"J">>), Num(1000), Num(2000)),
          BRow(Text(<<"M">>), Num(1000), Num(3000)) >>,
       \* Awd
       << CRow(Text(<<"K">>), Text(<<"J">>), Num(100), None, None, 0, Num(5)),
          CRow(Text(<<"B">>), Text(<<"J">>), None, Num(7), None, 1, None) >>,
       \* Amd
       << CRow(Text(<<"K">>), Text(<<"D">>), Num(1000), None, None, 0, Num(100)) >> >>

MixNames == << tA \o c1210, tA \o c3310, tA \o cwd, tA \o cmd >>

InitMixed ==
    \E P \in SUBSET Placements(MixCatalog), m \in Modes :
        Start(Book(MixNames, MixCatalog, P, 36), m, TRUE)

Init == InitNames \/ InitBalance \/ InitContract \/ InitMixed

(***************************************************************************)
(* The pipeline, 667..706, and the two aggregators step by step            *)
(***************************************************************************)
\* run_btn pressed: file_bytes = uploaded.getvalue(); out_bytes = file_bytes
Press ==
    /\ pc = "idle"
    /\ out_bytes' = file_bytes
    /\ pc' = IF mode \in {"Saldo", "Both"} THEN "run1" ELSE "run2"
    /\ UNCHANGED <<pandasNanText, mode, file_bytes, wb, groups, todo, err, offered, acc,
                   upload, sortOrder>>

\* a handler that reports the error and shows the download button all the same
RaiseAndOffer(e) ==
    /\ err' = e
    /\ pc' = "error"
    /\ offered' = TRUE

\* except Exception, 704..706
Raise(e) ==
    /\ err' = e
    /\ pc' = "error"
    /\ offered' = FALSE

\* run_code_1, 50..64
Load1 ==
    /\ pc = "run1"
    /\ wb' = out_bytes
    /\ groups' = Classify(SheetNames(out_bytes), 4, Codes1)
    /\ todo' = 1
    /\ acc' = [kind |-> "none"]
    /\ IF groups' = <<>> THEN Raise("no_sheets_1")
       ELSE pc' = "loop1" /\ UNCHANGED <<err, offered>>
    /\ UNCHANGED <<pandasNanText, mode, file_bytes, out_bytes, upload, sortOrder>>

\* run_code_1, one pass of the loop 67..259
Prefix1 ==
    /\ pc = "loop1"
    /\ todo <= Len(groups)
    /\ LET prefix == groups[todo].prefix
           sd == sheet_data(out_bytes, groups[todo].m, pandasNanText)
           cs == cust_set(sd)
           ss == supp_set(sd)
           c == BlockRows(cs, LAMBDA n : CustRow(sd, n))
           s == BlockRows(ss, LAMBDA n : SuppRow(sd, n))
           t == BlockRows(cs \cup ss, LAMBDA n : TotalRow(sd, n))
       IN  /\ acc' = [kind |-> "saldo", prefix |-> prefix, sd |-> sd]
           /\ IF cs = {} /\ ss = {} THEN wb' = wb /\ sortOrder' = sortOrder
              ELSE \E cust \in sort_values(c, sortOrder) :
                   \E supp \in sort_values(s, Sorted(sortOrder, c, cust)) :
                   \E total \in sort_values(t, sortOrder) :
                       /\ wb' = ReplaceSheet(wb, SaldoSheet(prefix, cust, supp, total))
                       /\ sortOrder' = Sorted(Sorted(Sorted(sortOrder, c, cust), s, supp), t, total)
    /\ todo' = todo + 1
    /\ UNCHANGED <<pandasNanText, mode, file_bytes, out_bytes, groups, pc, err, offered, upload>>

\* run_code_1, 261..263, and the pipeline after it, 681..702
Save1 ==
    /\ pc = "loop1"
    /\ todo > Len(groups)
    /\ out_bytes' = wb
    /\ pc' = IF mode = "Both" THEN "run2" ELSE "done"
    /\ offered' = (mode # "Both")
    /\ UNCHANGED <<pandasNanText, mode, file_bytes, wb, groups, todo, err, acc, upload, sortOrder>>

\* run_code_2, 271..283
Load2 ==
    /\ pc = "run2"
    /\ wb' = out_bytes
    /\ groups' = Classify(SheetNames(out_bytes), 2, Codes2)
    /\ todo' = 1
    /\ acc' = [kind |-> "none"]
    /\ IF valid_prefixes(groups') = <<>> THEN Raise("no_pairs_2")
       ELSE pc' = "loop2" /\ UNCHANGED <<err, offered>>
    /\ UNCHANGED <<pandasNanText, mode, file_bytes, out_bytes, upload, sortOrder>>

\* run_code_2, one pass of the loop 285..457
Prefix2 ==
    /\ pc = "loop2"
    /\ todo <= Len(valid_prefixes(groups))
    /\ LET g == valid_prefixes(groups)[todo]
           a == Accumulate(SheetByName(wb, g.m[cwd]), SheetByName(wb, g.m[cmd]))
       IN  /\ acc' = [kind |-> "contr", prefix |-> g.prefix, a |-> a]
           /\ wb' = ReplaceSheet(wb, KontrSheet(g.prefix, ContractRows(a)))
    /\ todo' = todo + 1
    /\ UNCHANGED <<pandasNanText, mode, file_bytes, out_bytes, groups, pc, err, offered,
                   upload, sortOrder>>

\* run_code_2, 459..461, and the pipeline after it, 687..702
Save2 ==
    /\ pc = "loop2"
    /\ todo > Len(valid_prefixes(groups))
    /\ out_bytes' = wb
    /\ pc' = "done"
    /\ offered' = TRUE
    /\ UNCHANGED <<pandasNanText, mode, file_bytes, wb, groups, todo, err, acc, upload, sortOrder>>

\* the result that was offered is uploaded in place of the file, 633, and the
\* balance scenario is run on it: the script starts again from the form
Reupload ==
    /\ pc = "done" /\ mode = "Saldo" /\ offered
    /\ upload = 1
    /\ upload' = 2
    /\ file_bytes' = out_bytes
    /\ out_bytes' = <<>>
    /\ wb' = <<>>
    /\ groups' = <<>>
    /\ todo' = 0
    /\ pc' = "idle"
    /\ err' = ""
    /\ offered' = FALSE
    /\ acc' = [kind |-> "none"]
    /\ UNCHANGED <<pandasNanText, mode, sortOrder>>

Next == Press \/ Load1 \/ Prefix1 \/ Save1 \/ Load2 \/ Prefix2 \/ Save2 \/ Reupload

Spec == Init /\ [][Next]_vars

(***************************************************************************)
(* Properties                                                              *)
(***************************************************************************)
\* the aggregator call that is running or has just raised was given out_bytes
Classified == pc \in {"loop1", "loop2"} \/ (pc = "error" /\ err \in {"no_sheets_1", "no_pairs_2"})
ClassL == IF pc = "loop1" \/ err = "no_sheets_1" THEN 4 ELSE 2
ClassCodes == IF ClassL = 4 THEN Codes1 ELSE Codes2
InputNames == SheetNames(out_bytes)

Recognized(name, L, codes) ==
    Len(name) >= L /\ StrLower(SubSeq(name, Len(name) - L + 1, Len(name))) \in codes
PrefixOf(name, L) == Strip(SubSeq(name, 1, Len(name) - L))
CodeOf(name, L) == StrLower(SubSeq(name, Len(name) - L + 1, Len(name)))

Registered(prefix, code) ==
    \E g \in 1..Len(groups) : groups[g].prefix = prefix /\ code \in DOMAIN groups[g].m

\* C1: the classifier's mapping prefix -> code -> sheet name holds exactly the
\* sheets whose last L characters, lowercased, are a recognized code (a name
\* shorter than L never), each under the stripped text before the code; of
\* several sheets with the same prefix and code the first in workbook order is
\* kept; prefixes are compared as written, letter case included.
C1_Classifier ==
    Classified =>
        LET names == InputNames
            L == ClassL
            codes == ClassCodes
        IN  /\ \A g, h \in 1..Len(groups) : g # h => groups[g].prefix # groups[h].prefix
            /\ \A g \in 1..Len(groups) : \A code \in DOMAIN groups[g].m :
                  \E i \in 1..Len(names) :
                      /\ names[i] = groups[g].m[code]
                      /\ Len(names[i]) >= L
                      /\ code \in codes
                      /\ CodeOf(names[i], L) = code
                      /\ PrefixOf(names[i], L) = groups[g].prefix
                      /\ \A j \in 1..(i - 1) :
                            ~(/\ Recognized(names[j], L, codes)
                              /\ CodeOf(names[j], L) = code
                              /\ PrefixOf(names[j], L) = groups[g].prefix)
            /\ \A i \in 1..Len(names) :
                  Recognized(names[i], L, codes)
                      <=> (Len(names[i]) >= L
                           /\ Registered(PrefixOf(names[i], L), CodeOf(names[i], L)))

\* two groups whose prefixes differ in letter case only, a code written in capitals,
\* and a sheet that lost to an earlier one with the same prefix and code
C1_Witness ==
    /\ Classified
    /\ \E g, h \in 1..Len(groups) :
          groups[g].prefix # groups[h].prefix
          /\ StrLower(groups[g].prefix) = StrLower(groups[h].prefix)
    /\ \E i \in 1..Len(InputNames) :
          /\ Recognized(InputNames[i], ClassL, ClassCodes)
          /\ SubSeq(InputNames[i], Len(InputNames[i]) - ClassL + 1, Len(InputNames[i]))
                # CodeOf(InputNames[i], ClassL)
          /\ \A g \in 1..Len(groups) : \A code \in DOMAIN groups[g].m :
                groups[g].m[code] # InputNames[i]

SaldoSheets == {i \in 1..Len(wb) : wb[i].kind = "saldo"}
ContrSheets == {i \in 1..Len(wb) : wb[i].kind = "contr"}

\* the cell of a block's row for a counterparty, 0 when the block has no such row
BlockCell(block, name, field) ==
    IF \E r \in 1..Len(block) : block[r].name = name
    THEN block[CHOOSE r \in 1..Len(block) : block[r].name = name][field]
    ELSE Zero

\* C2 as stated: the combined net of every counterparty of the combined block is
\* (1210 + 3510) - (1710 + 3310), each total in thousands, a missing code being 0.
C2_Original ==
    \A i \in SaldoSheets : \A r \in 1..Len(wb[i].total) :
        LET n == wb[i].total[r].name
        IN  wb[i].total[r].net =
                RSub(RAdd(BlockCell(wb[i].cust, n, "first"), BlockCell(wb[i].cust, n, "second")),
                     RAdd(BlockCell(wb[i].supp, n, "first"), BlockCell(wb[i].supp, n, "second")))

\* C2 amended: the combined net of every counterparty of the combined block is
\* (1210 + 1710) - (3310 + 3510), that is the customer net plus the supplier net,
\* each total in thousands, a missing code being 0.
C2_Amended ==
    \A i \in SaldoSheets : \A r \in 1..Len(wb[i].total) :
        LET n == wb[i].total[r].name
        IN  /\ wb[i].total[r].net =
                RSub(RAdd(BlockCell(wb[i].cust, n, "first"), BlockCell(wb[i].supp, n, "first")),
                     RAdd(BlockCell(wb[i].supp, n, "second"), BlockCell(wb[i].cust, n, "second")))
            /\ wb[i].total[r].net =
                RAdd(BlockCell(wb[i].cust, n, "net"), BlockCell(wb[i].supp, n, "net"))

\* a counterparty of the combined block with a customer code, a supplier code and
\* a code missing
C2_Witness ==
    \E i \in SaldoSheets : \E r \in 1..Len(wb[i].total) :
        LET n == wb[i].total[r].name
        IN  /\ BlockCell(wb[i].cust, n, "first") # Zero
            /\ BlockCell(wb[i].supp, n, "first") # Zero
            /\ BlockCell(wb[i].cust, n, "second") # Zero
            /\ BlockCell(wb[i].supp, n, "second") = Zero

\* run_code_1 has returned workbook bytes
Returned1 ==
    \/ mode = "Saldo" /\ pc = "done"
    \/ mode = "Both" /\ (pc \in {"run2", "loop2", "done"} \/ err = "no_pairs_2")

\* whether some prefix of the uploaded workbook has a counterparty
SomeData ==
    LET gs == Classify(SheetNames(file_bytes), 4, Codes1)
    IN  \E g \in 1..Len(gs) :
            LET sd == sheet_data(file_bytes, gs[g].m, pandasNanText)
            IN  cust_set(sd) \cup supp_set(sd) # {}

\* C3 as stated: run_code_1 returns workbook bytes only if some prefix produced a
\* counterparty; with recognized sheets and no data at all it raises instead.
C3_NoUsableData == Returned1 => SomeData

HasPair(names) ==
    \E i, j \in 1..Len(names) :
        /\ Len(names[i]) >= 2 /\ CodeOf(names[i], 2) = cwd
        /\ Len(names[j]) >= 2 /\ CodeOf(names[j], 2) = cmd
        /\ PrefixOf(names[i], 2) = PrefixOf(names[j], 2)

\* C4: run_code_2 enters its loop only when some prefix has both a "wd" and an
\* "md" sheet; otherwise it raises "no matching sheet pairs", and at that point
\* the loaded workbook is the workbook it was given, sheet for sheet, and no
\* result is offered.
C4_NoPair ==
    /\ pc = "loop2" => HasPair(InputNames)
    /\ (pc = "error" /\ err = "no_pairs_2") =>
          /\ ~HasPair(InputNames)
          /\ wb = out_bytes
          /\ ContrSheets = {}
          /\ ~offered

\* run_code_2 raised on a workbook that has "wd" or "md" sheets, none paired
C4_Witness ==
    /\ pc = "error" /\ err = "no_pairs_2"
    /\ Len(groups) >= 2
    /\ \E g \in 1..Len(groups) : cwd \in DOMAIN groups[g].m
    /\ \E g \in 1..Len(groups) : cmd \in DOMAIN groups[g].m

BlocksOf(sheet) == <<sheet.cust, sheet.supp, sheet.total>>

\* C5 as stated: the name cell of every data row of every output sheet of either
\* aggregator is a non-empty string.  The rows of the key ("", ""), which C9 is
\* about, are left aside here: the claim fails without them.
C5_Original ==
    /\ \A i \in SaldoSheets : \A b \in 1..3 : \A r \in 1..Len(BlocksOf(wb[i])[b]) :
          BlocksOf(wb[i])[b][r].name # <<>>
    /\ \A i \in ContrSheets : \A r \in 1..Len(wb[i].crows) :
          wb[i].crows[r].A # <<>> \/ wb[i].crows[r].B = <<>>

\* C5 amended: the counterparty cell of every data row of each of the three
\* blocks of a Balance sheet is a non-empty text without blanks around it;
\* column A of a Contract sheet holds the stripped name, which may be empty.
C5_Amended ==
    /\ \A i \in SaldoSheets : \A b \in 1..3 : \A r \in 1..Len(BlocksOf(wb[i])[b]) :
          LET n == BlocksOf(wb[i])[b][r].name
          IN  n # <<>> /\ n[1] # " " /\ n[Len(n)] # " "
    /\ \A i \in ContrSheets : \A r \in 1..Len(wb[i].crows) :
          LET n == wb[i].crows[r].A
          IN  n = <<>> \/ (n[1] # " " /\ n[Len(n)] # " ")

\* the source sheet the running prefix of run_code_1 reads for a code
SourceRows(code) ==
    IF code \in DOMAIN groups[todo - 1].m
    THEN SheetByName(file_bytes, groups[todo - 1].m[code]).rows
    ELSE <<>>

BlankCell(cell) == cell.t = "none" \/ (cell.t = "text" /\ \A k \in 1..Len(cell.s) : cell.s[k] = " ")
NonZeroNumber(cell) ==
    \/ cell.t = "num" /\ cell.v # 0
    \/ cell.t = "text" /\ IsNumericText(cell.s) /\ NatOfStr(Strip(cell.s)) # 0

\* a Balance sheet was written from a source sheet that has a row with a blank
\* name and a non-zero value next to a row that counts
C5_Witness ==
    /\ acc.kind = "saldo"
    /\ wb # <<>> /\ wb[Len(wb)].kind = "saldo" /\ Len(wb[Len(wb)].cust) >= 1
    /\ \E r \in 1..Len(SourceRows(c1210)) :
          /\ SourceRows(c1210)[r].A.t = "text"
          /\ BlankCell(SourceRows(c1210)[r].A)
          /\ NonZeroNumber(SourceRows(c1210)[r].G)

IsTotalName(cell) == cell.t = "text" /\ StartsWith(StrLower(Strip(cell.s)), Itogo)
IsTotalText(name) == StartsWith(StrLower(name), Itogo)

AccKeys ==
    DOMAIN acc.a.payments_year \cup DOMAIN acc.a.performance_year
    \cup DOMAIN acc.a.payments_2025_monthly \cup DOMAIN acc.a.performance_2025_monthly

BalanceNoTotals ==
    /\ acc.kind = "saldo" => \A code \in Codes1 : \A n \in DOMAIN acc.sd[code] : ~IsTotalText(n)
    /\ \A i \in SaldoSheets : \A b \in 1..3 : \A r \in 1..Len(BlocksOf(wb[i])[b]) :
          ~IsTotalText(BlocksOf(wb[i])[b][r].name)

\* C6 as stated: a row whose stripped name starts with the total marker, in any
\* letter case, is in no Counterparty Total and no Balance row, and in no
\* accumulator and no output row of the Contract Aggregator.
C6_Original ==
    /\ BalanceNoTotals
    /\ acc.kind = "contr" => \A k \in AccKeys : ~IsTotalText(k[1])
    /\ \A i \in ContrSheets : \A r \in 1..Len(wb[i].crows) : ~IsTotalText(wb[i].crows[r].A)

\* the "wd" and "md" sheets the prefix processed last by run_code_2 has read
PairRows(code) ==
    SheetByName(wb, valid_prefixes(groups)[todo - 1].m[code]).rows

HasYearCell(row) == row.C.t # "none" \/ row.D.t # "none" \/ row.E.t # "none"

\* C6 amended: such a row is in no Counterparty Total and no row of a Balance
\* sheet; the Contract Aggregator does not look for the marker, a total row with
\* a yearly cell gets its record and its output row like any other row.
C6_Amended ==
    /\ BalanceNoTotals
    /\ acc.kind = "contr" =>
          \A code \in Codes2 : \A r \in 1..Len(PairRows(code)) :
              LET row == PairRows(code)[r]
              IN  IsTotalName(row.A) /\ HasYearCell(row) =>
                      /\ <<Strip(row.A.s), KeyPart(row.B)>> \in AccKeys
                      /\ \E o \in 1..Len(wb[Len(wb)].crows) :
                            wb[Len(wb)].crows[o].A = Strip(row.A.s)

\* run_code_1 has summed a sheet that has a total row, in capitals, with a
\* non-zero value, and a row that counts
C6_Witness ==
    /\ acc.kind = "saldo"
    /\ DOMAIN acc.sd[c1210] # {}
    /\ \E r \in 1..Len(SourceRows(c1210)) :
          /\ IsTotalName(SourceRows(c1210)[r].A)
          /\ SourceRows(c1210)[r].A.s # StrLower(SourceRows(c1210)[r].A.s)
          /\ NonZeroNumber(SourceRows(c1210)[r].G)

ValueCell(row, code) == IF code \in {c1210, c1710} THEN row.G ELSE row.H

\* C7 as stated: every entry of a Counterparty Total comes from a source row with
\* a non-blank name cell and a non-zero numeric value; a row with a blank name
\* cell, or with a zero, empty or non-numeric value, makes no entry.
C7_RowFilter ==
    acc.kind = "saldo" =>
        \A code \in Codes1 : \A n \in DOMAIN acc.sd[code] :
            \E r \in 1..Len(SourceRows(code)) :
                LET row == SourceRows(code)[r]
                IN  /\ ~BlankCell(row.A)
                    /\ Strip(StrOf(row.A)) = n
                    /\ NonZeroNumber(ValueCell(row, code))

Descending(block) == \A r \in 1..(Len(block) - 1) : RLeq(block[r + 1].net, block[r].net)

\* C8: in a Balance sheet each block is in descending order of its own net; in a
\* Contract sheet the rows are in ascending order of (name, contract), by code
\* point, one row for each key of the union of the four accumulators.
C8_Ordering ==
    /\ \A i \in SaldoSheets : \A b \in 1..3 : Descending(BlocksOf(wb[i])[b])
    /\ \A i \in ContrSheets : \A r \in 1..(Len(wb[i].crows) - 1) :
          LET x == wb[i].crows[r]
              y == wb[i].crows[r + 1]
          IN  StrLess(x.A, y.A) \/ (x.A = y.A /\ StrLess(x.B, y.B))
    /\ acc.kind = "contr" =>
          /\ {<<wb[Len(wb)].crows[r].A, wb[Len(wb)].crows[r].B>> :
                  r \in 1..Len(wb[Len(wb)].crows)} = AccKeys
          /\ Len(wb[Len(wb)].crows) = Cardinality(AccKeys)

\* a workbook with a Balance sheet whose customer block is not in name order
\* and a Contract sheet with keys that differ in the contract only
C8_Witness ==
    /\ \E i \in SaldoSheets :
          /\ Len(wb[i].cust) >= 2 /\ StrLess(wb[i].cust[2].name, wb[i].cust[1].name)
          /\ Len(wb[i].supp) >= 2 /\ wb[i].supp[1].net # wb[i].supp[2].net
    /\ \E i \in ContrSheets : \E r \in 1..(Len(wb[i].crows) - 1) :
          wb[i].crows[r].A = wb[i].crows[r + 1].A

\* C9 as stated: no accumulator and no output row of the Contract Aggregator has
\* the key ("", ""), whatever columns A and B hold.
C9_KeyAdmission ==
    /\ acc.kind = "contr" => <<<<>>, <<>>>> \notin AccKeys
    /\ \A i \in ContrSheets : \A r \in 1..Len(wb[i].crows) :
          ~(wb[i].crows[r].A = <<>> /\ wb[i].crows[r].B = <<>>)

\* the sum of one column over the rows of a source sheet that have the key
RECURSIVE SumSeq(_)
SumSeq(xs) == IF xs = <<>> THEN 0 ELSE Head(xs) + SumSeq(Tail(xs))

SumColumn(rows, key, Cell(_)) ==
    SumSeq([r \in 1..Len(rows) |->
              IF (Truthy(rows[r].A) \/ Truthy(rows[r].B))
                 /\ KeyOf(rows[r]) = key /\ IsNumeric(Cell(rows[r]))
              THEN NumericValue(Cell(rows[r])) ELSE 0])

MonthCell(row, i) == IF row.mon = i - 1 THEN row.mv ELSE None

\* x is the cell n * 1.12
IsGrossed(x, n) == x[1] * 100 = n * 112 * x[2]

\* C10: in the row of every key of a Contract sheet, C, D, E and M..X hold the
\* sums of the "wd" sheet as they are, G, H, I and Y..AJ the sums of the "md"
\* sheet times 1.12, zero where the key has no record, and F, J, K hold
\* SUM(C:E), SUM(G:I) and J - F of that row.
C10_RowContents ==
    acc.kind = "contr" =>
        LET out == wb[Len(wb)].crows
            wd == PairRows(cwd)
            md == PairRows(cmd)
        IN  \A r \in 1..Len(out) :
            LET o == out[r]
                key == <<o.A, o.B>>
            IN  /\ o.row = 2 + r
                /\ o.C = <<SumColumn(wd, key, LAMBDA w : w.C), 1>>
                /\ o.D = <<SumColumn(wd, key, LAMBDA w : w.D), 1>>
                /\ o.E = <<SumColumn(wd, key, LAMBDA w : w.E), 1>>
                /\ IsGrossed(o.G, SumColumn(md, key, LAMBDA w : w.C))
                /\ IsGrossed(o.H, SumColumn(md, key, LAMBDA w : w.D))
                /\ IsGrossed(o.I, SumColumn(md, key, LAMBDA w : w.E))
                /\ \A i \in 1..12 :
                      /\ o.M[i] = <<SumColumn(wd, key, LAMBDA w : MonthCell(w, i)), 1>>
                      /\ IsGrossed(o.Y[i], SumColumn(md, key, LAMBDA w : MonthCell(w, i)))
                /\ o.F = [op |-> "SUM", a |-> "C", b |-> "E", row |-> o.row]
                /\ o.J = [op |-> "SUM", a |-> "G", b |-> "I", row |-> o.row]
                /\ o.K = [op |-> "SUB", a |-> "J", b |-> "F", row |-> o.row]

\* a row whose 2023 performance is 1000, written 1120, for a key with payments,
\* and a row of a key that only the "wd" sheet has
C10_Witness ==
    /\ acc.kind = "contr"
    /\ \E r \in 1..Len(wb[Len(wb)].crows) :
          LET o == wb[Len(wb)].crows[r]
          IN  o.G = <<1120, 1>> /\ o.C = <<100, 1>>
    /\ \E r \in 1..Len(wb[Len(wb)].crows) :
          <<wb[Len(wb)].crows[r].A, wb[Len(wb)].crows[r].B>> \notin DOMAIN acc.a.performance_year

\* the counterparties the prefix processed last has in a customer-side sheet and
\* in no supplier-side sheet
CustomerOnly ==
    (DOMAIN acc.sd[c1210] \cup DOMAIN acc.sd[c3510])
        \ (DOMAIN acc.sd[c1710] \cup DOMAIN acc.sd[c3310])

CodeTotal(code, n) == IF n \in DOMAIN acc.sd[code] THEN acc.sd[code][n] ELSE 0

RowsNamed(block, n) == {r \in 1..Len(block) : block[r].name = n}

\* the customer-only counterparty has one row in the customer block, one in the
\* combined block and none in the supplier block, its combined net being its
\* customer net (the supplier-side totals counted as 0)
CustomerOnlyPlaced(n) ==
    LET out == wb[Len(wb)]
    IN  /\ out.kind = "saldo"
        /\ Cardinality(RowsNamed(out.cust, n)) = 1
        /\ Cardinality(RowsNamed(out.total, n)) = 1
        /\ RowsNamed(out.supp, n) = {}
        /\ BlockCell(out.total, n, "net") = BlockCell(out.cust, n, "net")

\* C11 as stated: a counterparty of the customer-side sheets only has its row in
\* the customer block and in the combined block, supplier-side totals 0, and a
\* customer net equal to its 1210 total divided by 1000.
C11_Original ==
    acc.kind = "saldo" =>
        \A n \in CustomerOnly :
            /\ CustomerOnlyPlaced(n)
            /\ BlockCell(wb[Len(wb)].cust, n, "net") = Rat(CodeTotal(c1210, n), 1000)

\* C11 amended: such a counterparty has its row in the customer block and in the
\* combined block, supplier-side totals 0, and a customer net equal to its 1210
\* total minus its 3510 total, each divided by 1000 and 0 when the code has no
\* total for it; the net is the 1210 total divided by 1000 only when the
\* counterparty has no 3510 total.
C11_Amended ==
    acc.kind = "saldo" =>
        \A n \in CustomerOnly :
            LET cust == wb[Len(wb)].cust
            IN  /\ CustomerOnlyPlaced(n)
                /\ BlockCell(cust, n, "first") = Rat(CodeTotal(c1210, n), 1000)
                /\ BlockCell(cust, n, "second") = Rat(CodeTotal(c3510, n), 1000)
                /\ BlockCell(cust, n, "net") =
                       RSub(Rat(CodeTotal(c1210, n), 1000), Rat(CodeTotal(c3510, n), 1000))
                /\ n \notin DOMAIN acc.sd[c3510] =>
                       BlockCell(cust, n, "net") = Rat(CodeTotal(c1210, n), 1000)

\* a sheet written for a prefix with a customer-only counterparty that has both
\* a 1210 and a 3510 total, and one that has a 3510 total only
C11_Witness ==
    /\ acc.kind = "saldo"
    /\ wb # <<>> /\ wb[Len(wb)].kind = "saldo"
    /\ \E n \in CustomerOnly : CodeTotal(c1210, n) # 0 /\ CodeTotal(c3510, n) # 0
    /\ \E n \in CustomerOnly : n \notin DOMAIN acc.sd[c1210]

\* run_code_1 has returned on the workbook it returned before: file_bytes is the
\* result of the first application, out_bytes the result of the second
AppliedTwice == upload = 2 /\ mode = "Saldo" /\ pc = "done"

SheetsOf(book) == {book[i] : i \in 1..Len(book)}

\* C12 as stated: on the workbook it returned, run_code_1 classifies no output
\* sheet of the first application as a source sheet, and returns a workbook with
\* the same sheets: every output sheet has the name and the cells it had after
\* the first application, and there is no additional sheet.
C12_Idempotence ==
    /\ (upload = 2 /\ pc = "loop1") =>
          \A g \in 1..Len(groups) : \A code \in DOMAIN groups[g].m :
              SheetByName(out_bytes, groups[g].m[code]).kind = "src"
    /\ AppliedTwice =>
          /\ \A sh \in SheetsOf(file_bytes) : sh.kind = "saldo" => sh \in SheetsOf(out_bytes)
          /\ \A sh \in SheetsOf(out_bytes) : sh \in SheetsOf(file_bytes)
          /\ Len(out_bytes) = Len(file_bytes)

\* one step of the pipeline, as C13 describes it
PipelineStep ==
    \* nothing follows a failure: no retry, no further aggregator
    /\ pc # "error"
    \* a call that raises was loading the bytes it was given; the bytes the
    \* pipeline holds and the uploaded file stay as they were, no result is offered
    /\ pc' = "error" =>
          /\ pc \in {"run1", "run2"}
          /\ err' = (IF pc = "run1" THEN "no_sheets_1" ELSE "no_pairs_2")
          /\ out_bytes' = out_bytes
          /\ file_bytes' = file_bytes
          /\ wb' = out_bytes
          /\ ~offered'
    \* the first aggregator the mode selects gets the uploaded bytes
    /\ pc = "idle" =>
          /\ out_bytes' = file_bytes
          /\ pc' = (IF mode \in {"Saldo", "Both"} THEN "run1" ELSE "run2")
    \* each aggregator loads the bytes the pipeline holds at that point
    /\ pc \in {"run1", "run2"} => wb' = out_bytes /\ out_bytes' = out_bytes
    /\ (pc \in {"loop1", "loop2"} /\ pc' = pc) => out_bytes' = out_bytes
    \* the bytes an aggregator returns are what the next one gets
    /\ (pc = "loop1" /\ pc' # "loop1") =>
          /\ out_bytes' = wb
          /\ pc' = (IF mode = "Both" THEN "run2" ELSE "done")
    /\ (pc = "loop2" /\ pc' # "loop2") => out_bytes' = wb /\ pc' = "done"
    \* a result is offered only when every selected aggregator has returned
    /\ offered' => pc' = "done" /\ err' = ""
    /\ (pc' = "done" /\ pc # "done") =>
          \/ mode = "Saldo" /\ pc = "loop1"
          \/ mode \in {"Contracts", "Both"} /\ pc = "loop2"
    /\ mode' = mode

\* C13: a call that raises returns no bytes and leaves the bytes it was given and
\* the uploaded buffer unchanged; the aggregators the mode selects run in the
\* order Saldo, Contracts, each on the bytes the previous one returned; nothing
\* is retried after a failure; a result is offered only when every selected
\* aggregator returned, so not when Contracts fails after Saldo succeeded.
C13_Terminal == [][PipelineStep]_vars

\* in the combined mode Contracts has raised on the bytes Saldo returned, which
\* hold the sheet Saldo wrote
C13_Witness ==
    /\ mode = "Both" /\ pc = "error" /\ err = "no_pairs_2"
    /\ \E i \in 1..Len(out_bytes) : out_bytes[i].kind = "saldo"
    /\ out_bytes # file_bytes
    /\ ~offered

SheetsNamed(book, name) == {i \in 1..Len(book) : book[i].name = name}

RowSet(block) == {block[r] : r \in 1..Len(block)}

\* a sheet name Excel accepts: at most 31 characters, none of them forbidden
ValidTitle(name) == Len(name) <= SheetNameMax /\ \A k \in 1..Len(name) : name[k] \notin Banned

\* the recognized source sheets of the workbook the call was given are in the
\* workbook it is writing, as they were
SourcesKept ==
    \A g \in 1..Len(groups) : \A code \in DOMAIN groups[g].m :
        \E i \in 1..Len(wb) : wb[i] = SheetByName(out_bytes, groups[g].m[code])

\* the prefix run_code_1 processed as its g-th, if it has a counterparty, has one
\* sheet of its name, with the rows of its three blocks and no others
OneSaldoSheet(g) ==
    LET sd == sheet_data(out_bytes, groups[g].m, pandasNanText)
        cs == cust_set(sd)
        ss == supp_set(sd)
        name == OutName(groups[g].prefix, Saldo)
    IN  cs \cup ss # {} =>
            /\ ValidTitle(name)
            /\ Cardinality(SheetsNamed(wb, name)) = 1
            /\ \A i \in SheetsNamed(wb, name) :
                  /\ wb[i].kind = "saldo"
                  /\ RowSet(wb[i].cust) = {CustRow(sd, n) : n \in cs}
                  /\ Len(wb[i].cust) = Cardinality(cs)
                  /\ RowSet(wb[i].supp) = {SuppRow(sd, n) : n \in ss}
                  /\ Len(wb[i].supp) = Cardinality(ss)
                  /\ RowSet(wb[i].total) = {TotalRow(sd, n) : n \in cs \cup ss}
                  /\ Len(wb[i].total) = Cardinality(cs \cup ss)

\* the pair run_code_2 processed as its g-th has one sheet of its name, with the
\* rows of its own "wd" and "md" sheets
OneKontrSheet(g) ==
    LET p == valid_prefixes(groups)[g]
        name == OutName(p.prefix, Kontr)
    IN  /\ ValidTitle(name)
        /\ Cardinality(SheetsNamed(wb, name)) = 1
        /\ \A i \in SheetsNamed(wb, name) :
              /\ wb[i].kind = "contr"
              /\ wb[i].crows =
                    ContractRows(Accumulate(SheetByName(out_bytes, p.m[cwd]),
                                            SheetByName(out_bytes, p.m[cmd])))

\* C14 as stated: while and after an aggregator writes its sheets, every prefix
\* it has processed (with data, for run_code_1) has exactly one output sheet,
\* named safe_sheet_name(prefix + suffix), holding the data of that prefix only,
\* whatever sheet had that name before; the sheets written for earlier prefixes
\* and the recognized source sheets stay as they were.
C14_OneSheetPerGroup ==
    /\ pc = "loop1" => SourcesKept /\ \A g \in 1..(todo - 1) : OneSaldoSheet(g)
    /\ pc = "loop2" => SourcesKept /\ \A g \in 1..(todo - 1) : OneKontrSheet(g)

====
